---------------------------- MODULE Spec2Model ----------------------------
(***************************************************************************)
(* QuantumLink (src/modern_qr_barcode_gui.py): the product catalog          *)
(* (self.products, persisted to products_database.json), the scan ledger    *)
(* (self.scan_history) and the classifier (_analyze_scanned_data), together *)
(* with the Tk handlers that read and write them.                           *)
(*                                                                         *)
(* Python strings are modelled as sequences of one-character strings, so    *)
(* that strip, startswith, float and the price format are computed, not     *)
(* assumed.                                                                 *)
(***************************************************************************)
EXTENDS Integers, Sequences, FiniteSets, TLC

VARIABLES
    products,       \* self.products: the dict, as its rows in insertion order
    file,           \* products_database.json on disk
    db_tree,        \* self.db_tree: the rows shown in the Product Database tab
    edit_windows,   \* open "Edit Product" windows: the product_id each closure holds
    scan_history,   \* self.scan_history
    history_tree,   \* self.history_tree: item ids of the rows of the Scan History tab
    after_queue,    \* callbacks scheduled with root.after and not yet run
    dlg,            \* the modal askyesno of delete_history_item, while it is open
    now,            \* the last reading of the wall clock, in seconds
    scans,          \* history variable: number of scans scheduled so far
    failures,       \* history variable: number of failed saves so far
    last,           \* history variable: the handler that has just run, with its
                    \* inputs and its result, until it returns to the event loop
    is_scanning_webcam,  \* self.is_scanning_webcam
    cap,            \* self.cap: 0 for None, else the number of a capture object
    devices,        \* the cv2.VideoCapture objects made so far: the state of each
    webcam_thread,  \* self.webcam_thread: 0 for None, else the number of a thread
    threads,        \* the threads started on _scan_webcam_loop: where each is
    ui,             \* where the control thread is inside start/stop_webcam_scan
    pending_stops   \* stop_webcam_scan callbacks scheduled and not yet run

camvars == <<is_scanning_webcam, cap, devices, webcam_thread, threads, ui, pending_stops>>

vars == <<products, file, db_tree, edit_windows, scan_history, history_tree,
          after_queue, dlg, now, scans, failures, last, is_scanning_webcam, cap,
          devices, webcam_thread, threads, ui, pending_stops>>

-----------------------------------------------------------------------------
(* Bounds of the model.                                                     *)

MaxScans == 3
MaxClock == 1
MaxEditWindows == 1
MaxPending == 1
MaxSaveFailures == 1
MaxStarts == 2

-----------------------------------------------------------------------------
(* Strings.                                                                 *)

RUPEE == "₹"

Digits == <<"0", "1", "2", "3", "4", "5", "6", "7", "8", "9">>

IsDigit(c) == \E d \in 1..10 : Digits[d] = c

DigitVal(c) == (CHOOSE d \in 1..10 : Digits[d] = c) - 1

Letters == {"a", "b", "c", "h", "i", "l", "m", "n", "o", "p", "s", "t", "x",
            "A", "B", "F", "H", "I", "P", "S", "T", "W"}

\* str.isalnum() on the characters the model uses
IsAlnum(c) == IsDigit(c) \/ c \in Letters

\* str.startswith(prefix)
StartsWith(s, prefix) ==
    /\ Len(s) >= Len(prefix)
    /\ SubSeq(s, 1, Len(prefix)) = prefix

RECURSIVE LStrip(_)
LStrip(s) == IF s # <<>> /\ Head(s) = " " THEN LStrip(Tail(s)) ELSE s

RECURSIVE RStrip(_)
RStrip(s) ==
    IF s # <<>> /\ s[Len(s)] = " " THEN RStrip(SubSeq(s, 1, Len(s) - 1)) ELSE s

\* str.strip(), with the blank as the only whitespace
Strip(s) == RStrip(LStrip(s))

\* s.replace(c, "")
RECURSIVE Remove(_, _)
Remove(s, c) ==
    IF s = <<>> THEN <<>>
    ELSE (IF Head(s) = c THEN <<>> ELSE <<Head(s)>>) \o Remove(Tail(s), c)

\* "".join(c for c in pid if c.isalnum() or c in ('-', '_'))
RECURSIVE JoinSafe(_)
JoinSafe(s) ==
    IF s = <<>> THEN <<>>
    ELSE (IF IsAlnum(Head(s)) \/ Head(s) \in {"-", "_"} THEN <<Head(s)>> ELSE <<>>)
         \o JoinSafe(Tail(s))

\* safe_filename of generate_product_qr
SafeFilename(pid) == RStrip(JoinSafe(pid))

\* bytes.decode("utf-8", errors="ignore"): the bytes that are not valid UTF-8
\* (written "\\xff") are dropped
BadByte == "\\xff"

DecodeIgnore(b) == Remove(b, BadByte)

-----------------------------------------------------------------------------
(* float(price_str) and f"₹{price_val:.2f}".                                *)
(*                                                                         *)
(* A parsed price is kept exactly, as sign, digits and number of fraction   *)
(* digits (num / 10^scale).  Of the texts float() accepts, the model covers *)
(* [+-] digits [. digits], [+-] . digits, and [+-] "nan" / "inf"; exponent  *)
(* and underscore forms use characters the model's inputs do not contain.   *)

RECURSIVE Pow10(_)
Pow10(k) == IF k = 0 THEN 1 ELSE 10 * Pow10(k - 1)

RECURSIVE NumOf(_)
NumOf(ds) ==
    IF ds = <<>> THEN 0
    ELSE 10 * NumOf(SubSeq(ds, 1, Len(ds) - 1)) + DigitVal(ds[Len(ds)])

RECURSIVE IntStr(_)
IntStr(n) ==
    IF n < 10 THEN <<Digits[n + 1]>>
    ELSE IntStr(n \div 10) \o <<Digits[(n % 10) + 1]>>

\* float(s): [ok |-> FALSE] stands for ValueError
ParseFloat(s) ==
    LET signed == s # <<>> /\ Head(s) \in {"+", "-"}
        neg    == s # <<>> /\ Head(s) = "-"
        body   == IF signed THEN Tail(s) ELSE s
        dots   == {i \in 1..Len(body) : body[i] = "."}
        p      == IF dots = {} THEN Len(body) + 1 ELSE CHOOSE i \in dots : TRUE
        ipart  == SubSeq(body, 1, p - 1)
        fpart  == SubSeq(body, p + 1, Len(body))
    IN  IF body = <<"n", "a", "n">>
          THEN [ok |-> TRUE, kind |-> "nan", neg |-> neg, num |-> 0, scale |-> 0]
        ELSE IF body = <<"i", "n", "f">>
          THEN [ok |-> TRUE, kind |-> "inf", neg |-> neg, num |-> 0, scale |-> 0]
        ELSE IF /\ Cardinality(dots) <= 1
                /\ Len(ipart) + Len(fpart) >= 1
                /\ \A i \in 1..Len(ipart) : IsDigit(ipart[i])
                /\ \A i \in 1..Len(fpart) : IsDigit(fpart[i])
          THEN [ok |-> TRUE, kind |-> "finite", neg |-> neg,
                num |-> NumOf(ipart \o fpart), scale |-> Len(fpart)]
        ELSE [ok |-> FALSE]

\* The value in hundredths, rounded to nearest.  An exact decimal tie (a
\* third fraction digit 5 followed by nothing) is decided in Python by the
\* binary double; it is rounded half-even here and no input of the model is
\* a tie.
RoundCents(num, scale) ==
    IF scale <= 2 THEN num * Pow10(2 - scale)
    ELSE LET d == Pow10(scale - 2)
             q == num \div d
             r == num % d
         IN  IF 2 * r > d THEN q + 1
             ELSE IF 2 * r < d THEN q
             ELSE IF q % 2 = 0 THEN q ELSE q + 1

\* f"{v:.2f}"
Format2f(v) ==
    LET sign  == IF v.neg THEN <<"-">> ELSE <<>>
        cents == RoundCents(v.num, v.scale)
    IN  IF v.kind = "nan" THEN <<"n", "a", "n">>
        ELSE IF v.kind = "inf" THEN sign \o <<"i", "n", "f">>
        ELSE sign \o IntStr(cents \div 100) \o <<".">>
                  \o <<Digits[((cents \div 10) % 10) + 1], Digits[(cents % 10) + 1]>>

\* f"₹{price_val:.2f}"
FormatPrice(v) == <<RUPEE>> \o Format2f(v)

-----------------------------------------------------------------------------
(* self.products: a Python dict (str -> {"name", "price"}), kept as the     *)
(* sequence of its rows in insertion order.                                 *)

Ids(d) == {d[i].pid : i \in DOMAIN d}

\* key in d
DictHas(d, k) == \E i \in DOMAIN d : d[i].pid = k

DictIndex(d, k) == CHOOSE i \in DOMAIN d : d[i].pid = k

\* d[key]
DictGet(d, k) == [name |-> d[DictIndex(d, k)].name, price |-> d[DictIndex(d, k)].price]

DictSet_append(d, k, name, price) == Append(d, [pid |-> k, name |-> name, price |-> price])

\* d[key] = {"name": name, "price": price}: an existing key keeps its place
DictSet(d, k, name, price) ==
    LET row == [pid |-> k, name |-> name, price |-> price]
    IN  IF DictHas(d, k) THEN [d EXCEPT ![DictIndex(d, k)] = row]
        ELSE Append(d, row)

DictDel_first(d, k) == Tail(d)

\* del d[key], for a key of d
DictDel(d, k) ==
    LET i == DictIndex(d, k)
    IN  SubSeq(d, 1, i - 1) \o SubSeq(d, i + 1, Len(d))

-----------------------------------------------------------------------------
(* products_database.json.  json.dump followed by json.load returns the     *)
(* dict it was given (string keys and string values, insertion order kept), *)
(* so a well-formed file is kept as the rows it holds.                      *)

FileMissing == [state |-> "missing", data |-> <<>>]

FileCorrupt == [state |-> "corrupt", data |-> <<>>]

\* the file is there and open() is refused
FileUnreadable == [state |-> "unreadable", data |-> <<>>]

\* the file holds bytes that are not text in the encoding open() reads with
FileUndecodable == [state |-> "undecodable", data |-> <<>>]

FileOf(d) == [state |-> "ok", data |-> d]

\* load_products: what it returns, the error it shows, the exception that
\* leaves it.  json.load raises UnicodeDecodeError on bytes that do not
\* decode; it is a ValueError and neither a JSONDecodeError nor an IOError.
load_products(f) ==
    CASE f.state = "ok"          -> [value |-> f.data, shown |-> FALSE, raised |-> "none"]
      [] f.state = "missing"     -> [value |-> <<>>, shown |-> FALSE, raised |-> "none"]
      [] f.state = "undecodable" -> [value |-> <<>>, shown |-> FALSE,
                                     raised |-> "UnicodeDecodeError"]
      [] OTHER                   -> [value |-> <<>>, shown |-> TRUE, raised |-> "none"]

SaveOutcomes == {"ok", "open_failed", "write_failed"}

save_products_unflushed(d, f, outcome) ==
    CASE outcome = "ok"           -> [file |-> f, reported |-> FALSE]
      [] outcome = "open_failed"  -> [file |-> f, reported |-> TRUE]
      [] outcome = "write_failed" -> [file |-> FileCorrupt, reported |-> TRUE]

\* save_products: open(DATA_FILE, "w") truncates the file before json.dump
\* writes it, so a failure after the open leaves a cut file and a failure of
\* the open leaves the old one; either is reported by messagebox.showerror.
save_products(d, f, outcome) ==
    CASE outcome = "ok"           -> [file |-> FileOf(d), reported |-> FALSE]
      [] outcome = "open_failed"  -> [file |-> f, reported |-> TRUE]
      [] outcome = "write_failed" -> [file |-> FileCorrupt, reported |-> TRUE]

\* populate_database_view: the tree shows the dict's rows
populate_database_view(d) == [i \in DOMAIN d |-> <<d[i].pid, d[i].name, d[i].price>>]

-----------------------------------------------------------------------------
(* The classifier.                                                          *)

WIFI == <<"W", "I", "F", "I", ":">>
HTTP == <<"h", "t", "t", "p", ":", "/", "/">>
HTTPS == <<"h", "t", "t", "p", "s", ":", "/", "/">>
MAILTO == <<"m", "a", "i", "l", "t", "o", ":">>
TEL == <<"t", "e", "l", ":">>

_analyze_url_first(data, d) ==
    IF StartsWith(data, HTTP) \/ StartsWith(data, HTTPS) THEN [type |-> "URL"]
    ELSE IF DictHas(d, data)
      THEN [type |-> "Product ID",
            info |-> <<DictGet(d, data).name, DictGet(d, data).price>>]
    ELSE IF StartsWith(data, WIFI) THEN [type |-> "Wi-Fi Network"]
    ELSE IF StartsWith(data, MAILTO) THEN [type |-> "Email Address"]
    ELSE IF StartsWith(data, TEL) THEN [type |-> "Phone Number"]
    ELSE [type |-> "Plain Text"]

\* _analyze_scanned_data
_analyze_scanned_data(data, d) ==
    IF DictHas(d, data)
      THEN [type |-> "Product ID",
            info |-> <<DictGet(d, data).name, DictGet(d, data).price>>]
    ELSE IF StartsWith(data, WIFI) THEN [type |-> "Wi-Fi Network"]
    ELSE IF StartsWith(data, HTTP) \/ StartsWith(data, HTTPS) THEN [type |-> "URL"]
    ELSE IF StartsWith(data, MAILTO) THEN [type |-> "Email Address"]
    ELSE IF StartsWith(data, TEL) THEN [type |-> "Phone Number"]
    ELSE [type |-> "Plain Text"]

-----------------------------------------------------------------------------
(* The scan ledger.  A row is {"timestamp", "data", "type"}; the field n    *)
(* is a history field (the number of the append that recorded the row) and  *)
(* is read by no handler.                                                   *)

add_to_history_retyping(h, timestamp, data, data_type, n) ==
    <<[timestamp |-> timestamp, data |-> data, type |-> data_type, n |-> n]>>
        \o [i \in DOMAIN h |-> [h[i] EXCEPT !.type = data_type]]

add_to_history_at_tail(h, timestamp, data, data_type, n) ==
    h \o <<[timestamp |-> timestamp, data |-> data, type |-> data_type, n |-> n]>>

\* add_to_history: scan_history.insert(0, {...})
add_to_history(h, timestamp, data, data_type, n) ==
    <<[timestamp |-> timestamp, data |-> data, type |-> data_type, n |-> n]>> \o h

\* The k smallest item ids from the given one on that are not in the set held
RECURSIVE FreshIds(_, _, _)
FreshIds(k, held, from) ==
    IF k = 0 THEN <<>>
    ELSE IF from \in held THEN FreshIds(k, held, from + 1)
    ELSE <<from>> \o FreshIds(k - 1, held, from + 1)

\* populate_history_view: every row of the tree is deleted and the ledger's
\* rows are inserted again.  Tk gives an inserted row an item id it has not
\* used before; an id matters only while something still holds it (the
\* selection read by a delete_history_item that is waiting for its answer),
\* so the new rows take the smallest ids that are not held.
populate_history_view(h, held) == FreshIds(Len(h), held, 1)

\* history_tree.index(item), for an item of the tree, counted from 0
TreeIndex(tree, item) == (CHOOSE i \in DOMAIN tree : tree[i] = item) - 1

RECURSIVE SortedAscending(_)
SortedAscending(S) ==
    IF S = {} THEN <<>>
    ELSE LET m == CHOOSE x \in S : \A y \in S : x <= y
         IN  <<m>> \o SortedAscending(S \ {m})

\* sorted(indices, reverse=True)
RECURSIVE SortedReverse(_)
SortedReverse(S) ==
    IF S = {} THEN <<>>
    ELSE LET m == CHOOSE x \in S : \A y \in S : y <= x
         IN  <<m>> \o SortedReverse(S \ {m})

\* for index in indices: del h[index]   (indices counted from 0; an index
\* past the end raises IndexError, which ends the loop)
RECURSIVE DelEach(_, _)
DelEach(h, indices) ==
    IF indices = <<>> THEN h
    ELSE LET i == Head(indices) + 1
         IN  IF i > Len(h) THEN h
             ELSE DelEach(SubSeq(h, 1, i - 1) \o SubSeq(h, i + 1, Len(h)), Tail(indices))

\* the deletion of delete_history_item, for the selected positions
DeleteIndices(h, S) == DelEach(h, SortedReverse(S))

\* The askyesno of delete_history_item: selected_items is what the handler
\* read from the tree before asking; begun_with and positions are history
\* fields (the ledger and the selected positions at that moment).
NoDialog == [open |-> FALSE, selected_items |-> {}, begun_with |-> <<>>, positions |-> {}]

-----------------------------------------------------------------------------
(* Inputs.                                                                  *)

s_P1 == <<"P", "1">>
s_URLID == HTTP \o <<"a">>
s_AT == <<"@">>
s_A == <<"A">>
s_B == <<"B">>
s_BLANK == <<" ">>
s_5 == <<"5">>
s_1239 == <<"1", ".", "2", "3", "9">>
s_NEG5 == <<"-", "5">>
s_X == <<"x">>

\* what the user types into the Product ID, Product Name and Price entries
IdTexts == {<<>>, s_P1, s_URLID, s_AT}
NameTexts == {s_BLANK, s_A, <<" ", "B">>}
PriceTexts == {<<>>, s_X, s_5, s_NEG5}

\* the narrow inputs of the whole-program specification
FewIdTexts == {s_URLID}
FewNameTexts == {s_A}
FewPriceTexts == {s_1239, s_X}

\* results[0]['parsed'] of the decoder: bytes, empty when nothing was decoded
ParsedBytes == {<<>>, HTTP \o <<BadByte, "a">>}

\* _generate_qr_image returns an image or None; img.save may fail
ImgOutcomes == {"ok", "none", "save_failed"}

StoredP1 == <<[pid |-> s_P1, name |-> s_A, price |-> <<RUPEE, "5", ".", "0", "0">>]>>

InitFiles == {FileMissing, FileCorrupt, FileOf(StoredP1)}

\* the control thread is in the event loop or in a handler that is one step
UiIdle == [pc |-> "idle", caller |-> "none"]

\* initialize_main_app: no capture object, no thread, not scanning
CamInit ==
    /\ is_scanning_webcam = FALSE
    /\ cap = 0
    /\ devices = <<>>
    /\ webcam_thread = 0
    /\ threads = <<>>
    /\ ui = UiIdle
    /\ pending_stops = 0

-----------------------------------------------------------------------------
(* The state after initialize_main_app.                                     *)

Init ==
    /\ file \in InitFiles
    /\ products = load_products(file).value
    /\ db_tree = populate_database_view(products)
    /\ edit_windows = <<>>
    /\ scan_history = <<>>
    /\ history_tree = <<>>
    /\ after_queue = <<>>
    /\ dlg = NoDialog
    /\ now = 0
    /\ scans = 0
    /\ failures = 0
    /\ last = [op |-> "initialize_main_app", result |-> "ok", args |-> <<>>]
    /\ CamInit

Waiting == [op |-> "mainloop", result |-> "ok", args |-> <<>>]

\* the event loop is waiting for an event
Ready == last = Waiting

\* no modal dialog is open: the main window takes the user's clicks
Idle == Ready /\ ~dlg.open /\ ui = UiIdle

\* the handler that has run returns to the event loop
mainloop ==
    /\ ~Ready
    /\ ui = UiIdle
    /\ last' = Waiting
    /\ UNCHANGED camvars
    /\ UNCHANGED <<products, file, db_tree, edit_windows, scan_history, history_tree,
                   after_queue, dlg, now, scans, failures>>

Persist_rollback(d, outcome) ==
    /\ products' = IF save_products(d, file, outcome).reported THEN products ELSE d
    /\ file' = save_products(d, file, outcome).file
    /\ db_tree' = populate_database_view(products')
    /\ failures' = IF save_products(d, file, outcome).reported THEN failures + 1
                   ELSE failures

\* self.products = d; self.save_products(); self.populate_database_view()
Persist(d, outcome) ==
    /\ products' = d
    /\ file' = save_products(d, file, outcome).file
    /\ db_tree' = populate_database_view(d)
    /\ failures' = IF save_products(d, file, outcome).reported THEN failures + 1
                   ELSE failures

Untouched ==
    /\ products' = products
    /\ file' = file
    /\ db_tree' = db_tree
    /\ failures' = failures

SaveResult(d, outcome) ==
    IF save_products(d, file, outcome).reported THEN "save_failed" ELSE "ok"

\* An input the handler does not come to read is given its first value, so
\* that one run of the handler is one step: the outcome of the save when save_products
\* is not reached, the outcome of the image when it is not reached.
Reached(result, img, outcome) ==
    /\ result \notin {"ok", "save_failed"} => outcome = "ok"
    /\ result \in {"fields_required", "price_invalid"} => img = "ok"
    /\ result = "ValueError" => img = "ok"
    /\ outcome = "ok" \/ failures < MaxSaveFailures

\* generate_product_qr
generate_product_qr(id_text, name_text, price_text, img, outcome) ==
    LET pid       == Strip(id_text)
        name      == Strip(name_text)
        price_str == Strip(price_text)
        price_val == ParseFloat(price_str)
        d         == DictSet(products, pid, name, FormatPrice(price_val))
        result    == IF pid = <<>> \/ name = <<>> \/ price_str = <<>>
                       THEN "fields_required"
                     ELSE IF ~price_val.ok THEN "price_invalid"
                     ELSE IF img = "none" THEN "qr_error"
                     ELSE IF SafeFilename(pid) = <<>> THEN "ValueError"
                     ELSE IF img = "save_failed" THEN "OSError"
                     ELSE SaveResult(d, outcome)
    IN  /\ Idle
        /\ Reached(result, img, outcome)
        /\ IF result \in {"ok", "save_failed"} THEN Persist(d, outcome) ELSE Untouched
        /\ last' = [op |-> "generate_product_qr", result |-> result,
                    args |-> [id |-> id_text, name |-> name_text, price |-> price_text,
                              img |-> img, outcome |-> outcome]]
        /\ UNCHANGED camvars
        /\ UNCHANGED <<edit_windows, scan_history, history_tree, after_queue, dlg, now,
                       scans>>

\* edit_product; sel is the selected row of db_tree, 0 when none is selected.
\* The window's closure keeps product_id.  Its two entries start with the
\* product's name and price (the price without its currency symbol) and are
\* the user's to change: save_changes takes their texts as inputs.
edit_product(sel) ==
    LET product_id == db_tree[sel][1]
        result     == IF sel = 0 THEN "no_selection"
                      ELSE IF ~DictHas(products, product_id) THEN "KeyError"
                      ELSE "ok"
    IN  /\ Idle
        /\ Len(edit_windows) < MaxEditWindows
        /\ edit_windows' = IF result = "ok" THEN Append(edit_windows, product_id)
                           ELSE edit_windows
        /\ last' = [op |-> "edit_product", result |-> result, args |-> [sel |-> sel]]
        /\ UNCHANGED camvars
        /\ UNCHANGED <<products, file, db_tree, scan_history, history_tree, after_queue,
                       dlg, now, scans, failures>>

\* save_changes of the edit window w, with the entries' texts at the click
save_changes(w, name_text, price_text, outcome) ==
    LET product_id    == edit_windows[w]
        new_name      == Strip(name_text)
        new_price_str == Strip(price_text)
        new_price_val == ParseFloat(new_price_str)
        d             == DictSet(products, product_id, new_name, FormatPrice(new_price_val))
        result        == IF new_name = <<>> \/ new_price_str = <<>> THEN "fields_required"
                         ELSE IF ~new_price_val.ok THEN "price_invalid"
                         ELSE IF ~DictHas(products, product_id) THEN "KeyError"
                         ELSE SaveResult(d, outcome)
    IN  /\ Idle
        /\ Reached(result, "ok", outcome)
        /\ IF result \in {"ok", "save_failed"}
             THEN /\ Persist(d, outcome)
                  /\ edit_windows' = SubSeq(edit_windows, 1, w - 1)
                                     \o SubSeq(edit_windows, w + 1, Len(edit_windows))
             ELSE /\ Untouched
                  /\ edit_windows' = edit_windows
        /\ last' = [op |-> "save_changes", result |-> result,
                    args |-> [id |-> product_id, name |-> name_text, price |-> price_text,
                              outcome |-> outcome]]
        /\ UNCHANGED camvars
        /\ UNCHANGED <<scan_history, history_tree, after_queue, dlg, now, scans>>

\* delete_product; sel as in edit_product, yes is the answer to askyesno
delete_product(sel, yes, outcome) ==
    LET product_id == db_tree[sel][1]
        d          == DictDel(products, product_id)
        result     == IF sel = 0 THEN "no_selection"
                      ELSE IF ~yes THEN "declined"
                      ELSE IF ~DictHas(products, product_id) THEN "KeyError"
                      ELSE SaveResult(d, outcome)
    IN  /\ Idle
        /\ Reached(result, "ok", outcome)
        /\ sel = 0 => yes
        /\ IF result \in {"ok", "save_failed"} THEN Persist(d, outcome) ELSE Untouched
        /\ last' = [op |-> "delete_product", result |-> result,
                    args |-> [id |-> IF sel = 0 THEN <<>> ELSE product_id,
                              outcome |-> outcome]]
        /\ UNCHANGED camvars
        /\ UNCHANGED <<edit_windows, scan_history, history_tree, after_queue, dlg, now,
                       scans>>

\* scan_from_image: the decoded payload, when there is one, is handed to
\* process_scanned_data by root.after(100, ...)
scan_from_image(parsed) ==
    /\ Idle
    /\ scans < MaxScans
    /\ Len(after_queue) < MaxPending
    /\ after_queue' = IF parsed = <<>> THEN after_queue ELSE Append(after_queue, parsed)
    /\ scans' = IF parsed = <<>> THEN scans ELSE scans + 1
    /\ last' = [op |-> "scan_from_image",
                result |-> IF parsed = <<>> THEN "no_code" ELSE "ok",
                args |-> [parsed |-> parsed]]
    /\ UNCHANGED camvars
    /\ UNCHANGED <<products, file, db_tree, edit_windows, scan_history, history_tree,
                   dlg, now, failures>>

\* process_scanned_data, run by the event loop when its timer is due; a modal
\* dialog runs the event loop too, so the callback also runs while one is open.
\* t is datetime.now(), which is taken not to run backwards.
process_scanned_data(t) ==
    /\ Ready
    /\ after_queue # <<>>
    /\ now' = t
    /\ LET data     == DecodeIgnore(Head(after_queue))
           analysis == _analyze_scanned_data(data, products)
           n        == scans - Len(after_queue) + 1
       IN  /\ scan_history' = add_to_history(scan_history, t, data, analysis.type, n)
           /\ last' = [op |-> "process_scanned_data", result |-> "ok",
                       args |-> [data |-> data]]
    /\ after_queue' = Tail(after_queue)
    /\ history_tree' = populate_history_view(scan_history', dlg.selected_items)
    /\ UNCHANGED camvars
    /\ UNCHANGED <<products, file, db_tree, edit_windows, dlg, scans, failures>>

TreeItems == {history_tree[i] : i \in DOMAIN history_tree}

\* delete_history_item up to its askyesno; selected_items is the tree's selection
delete_history_item(selected_items) ==
    /\ Idle
    /\ dlg' = IF selected_items = {} THEN dlg
              ELSE [open |-> TRUE, selected_items |-> selected_items,
                    begun_with |-> scan_history,
                    positions |-> {TreeIndex(history_tree, item) : item \in selected_items}]
    /\ last' = [op |-> "delete_history_item",
                result |-> IF selected_items = {} THEN "no_selection" ELSE "asking",
                args |-> [selected_items |-> selected_items]]
    /\ UNCHANGED camvars
    /\ UNCHANGED <<products, file, db_tree, edit_windows, scan_history, history_tree,
                   after_queue, now, scans, failures>>

\* delete_history_item from the answer to its askyesno on.  history_tree.index
\* raises TclError for an item the tree no longer holds; the handler catches
\* IndexError only.
delete_history_confirmed(yes) ==
    LET stale   == ~(dlg.selected_items \subseteq TreeItems)
        indices == {TreeIndex(history_tree, item) : item \in dlg.selected_items}
        result  == IF ~yes THEN "declined" ELSE IF stale THEN "TclError" ELSE "ok"
    IN  /\ Ready
        /\ dlg.open
        /\ dlg' = NoDialog
        /\ IF result = "ok"
             THEN /\ scan_history' = DeleteIndices(scan_history, indices)
                  /\ history_tree' = populate_history_view(scan_history', {})
             ELSE UNCHANGED <<scan_history, history_tree>>
        /\ last' = [op |-> "delete_history_confirmed", result |-> result,
                    args |-> [yes |-> yes, begun_with |-> dlg.begun_with,
                              positions |-> dlg.positions]]
        /\ UNCHANGED camvars
        /\ UNCHANGED <<products, file, db_tree, edit_windows, after_queue, now, scans,
                       failures>>

-----------------------------------------------------------------------------
(* The whole program, with few catalog inputs.                              *)

Next ==
    \/ mainloop
    \/ \E id_text \in FewIdTexts, name_text \in FewNameTexts, price_text \in FewPriceTexts :
          generate_product_qr(id_text, name_text, price_text, "ok", "ok")
    \/ \E sel \in 0..Len(db_tree) : edit_product(sel)
    \/ \E w \in DOMAIN edit_windows : save_changes(w, s_B, s_5, "ok")
    \/ \E sel \in 0..Len(db_tree), yes \in BOOLEAN : delete_product(sel, yes, "ok")
    \/ \E parsed \in ParsedBytes : scan_from_image(parsed)
    \/ \E t \in now..MaxClock : process_scanned_data(t)
    \/ \E selected_items \in SUBSET TreeItems : delete_history_item(selected_items)
    \/ \E yes \in BOOLEAN : delete_history_confirmed(yes)

Spec == Init /\ [][Next]_vars

(* The catalog's handlers, with all their inputs.                           *)

NextCatalog ==
    \/ mainloop
    \/ \E id_text \in IdTexts, name_text \in NameTexts, price_text \in PriceTexts,
          img \in ImgOutcomes, outcome \in SaveOutcomes :
          generate_product_qr(id_text, name_text, price_text, img, outcome)
    \/ \E sel \in 0..Len(db_tree) : edit_product(sel)
    \/ \E w \in DOMAIN edit_windows, name_text \in NameTexts, price_text \in PriceTexts,
          outcome \in SaveOutcomes :
          save_changes(w, name_text, price_text, outcome)
    \/ \E sel \in 0..Len(db_tree), yes \in BOOLEAN, outcome \in SaveOutcomes :
          delete_product(sel, yes, outcome)

SpecCatalog == Init /\ [][NextCatalog]_vars

-----------------------------------------------------------------------------
(* The classifier on its own: every payload against every catalog.          *)

s_WIFIID == WIFI \o <<"x">>
s_TEL == TEL \o <<"1">>

ClassifyIds == {s_P1, s_URLID, s_WIFIID, s_TEL}

Payloads == {<<>>, s_P1, s_URLID, HTTPS \o <<"a">>, s_WIFIID, MAILTO \o <<"a">>, s_TEL,
             s_X, <<"w", "i", "f", "i", ":", "x">>, <<"h", "t", "t", "p", ":", "/", "a">>,
             <<"t", "e", "l">>, <<"x">> \o HTTP, <<"H", "T", "T", "P", ":", "/", "/">>}

\* a catalog with the given ids: the dict after they were created in turn
RECURSIVE CatalogOf(_)
CatalogOf(ids) ==
    IF ids = <<>> THEN <<>>
    ELSE DictSet(CatalogOf(SubSeq(ids, 1, Len(ids) - 1)), ids[Len(ids)], s_A,
                 FormatPrice(ParseFloat(s_5)))

IdOrders == {<<>>} \cup {<<a>> : a \in ClassifyIds}
            \cup {<<a, b>> : a, b \in ClassifyIds}

InitClassify ==
    /\ products \in {CatalogOf(ids) : ids \in IdOrders}
    /\ file = FileOf(products)
    /\ db_tree = populate_database_view(products)
    /\ edit_windows = <<>>
    /\ scan_history = <<>>
    /\ history_tree = <<>>
    /\ after_queue = <<>>
    /\ dlg = NoDialog
    /\ now = 0
    /\ scans = 0
    /\ failures = 0
    /\ last = Waiting
    /\ CamInit

\* analysis = self._analyze_scanned_data(data)
analyze(data) ==
    /\ Ready
    /\ last' = [op |-> "_analyze_scanned_data",
                result |-> _analyze_scanned_data(data, products),
                args |-> [data |-> data]]
    /\ UNCHANGED camvars
    /\ UNCHANGED <<products, file, db_tree, edit_windows, scan_history, history_tree,
                   after_queue, dlg, now, scans, failures>>

NextClassify ==
    \/ mainloop
    \/ \E data \in Payloads : analyze(data)

SpecClassify == InitClassify /\ [][NextClassify]_vars

-----------------------------------------------------------------------------
(* Live scanning.  start_webcam_scan and stop_webcam_scan run on the        *)
(* control thread, _scan_webcam_loop on a thread of its own; the two share  *)
(* self.is_scanning_webcam and self.cap without a lock, so the loop is      *)
(* modelled a statement at a time and stop_webcam_scan in its four steps.   *)
(* A call into Tk from the loop's thread (root.after, PhotoImage,           *)
(* webcam_label.config) is carried out by the control thread's event loop   *)
(* and waits for it: it cannot be made while the control thread is inside   *)
(* start_webcam_scan or stop_webcam_scan.                                   *)

scan_interval == 5

\* what the camera shows the n-th loop when it decodes a code
CamPayload(n) == <<"q">> \o IntStr(n)

NewThread == [pc |-> "announce", cap |-> 0, frame_count |-> 0]

Alive(n) == n # 0 /\ threads[n].pc \notin {"done", "raised"}

\* the event loop can carry out a Tk call of another thread
TkServes == ui = UiIdle

\* toggle_webcam_scan when not scanning: start_webcam_scan to its line 435
start_webcam_scan ==
    /\ Idle
    /\ ~is_scanning_webcam
    /\ Len(devices) < MaxStarts
    /\ is_scanning_webcam' = TRUE
    /\ ui' = [pc |-> "open", caller |-> "toggle_webcam_scan"]
    /\ last' = [op |-> "toggle_webcam_scan", result |-> "starting", args |-> <<>>]
    /\ UNCHANGED <<products, file, db_tree, edit_windows, scan_history, history_tree,
                   after_queue, dlg, now, scans, failures>>
    /\ UNCHANGED <<cap, devices, webcam_thread, threads, pending_stops>>

\* start_webcam_scan from cv2.VideoCapture on: the thread is started when the
\* camera opens; when it does not, self.cap keeps the capture object
start_webcam_scan_open(opened) ==
    /\ ui.pc = "open"
    /\ devices' = Append(devices, IF opened THEN "open" ELSE "unopened")
    /\ cap' = Len(devices) + 1
    /\ IF opened
         THEN /\ threads' = Append(threads, NewThread)
              /\ webcam_thread' = Len(threads) + 1
              /\ is_scanning_webcam' = is_scanning_webcam
         ELSE /\ is_scanning_webcam' = FALSE
              /\ UNCHANGED <<threads, webcam_thread>>
    /\ ui' = UiIdle
    /\ last' = [op |-> "start_webcam_scan",
                result |-> IF opened THEN "ok" ELSE "camera_error", args |-> <<>>]
    /\ UNCHANGED <<products, file, db_tree, edit_windows, scan_history, history_tree,
                   after_queue, dlg, now, scans, failures, pending_stops>>

StopCallers == {"toggle_webcam_scan", "after", "on_closing"}

\* stop_webcam_scan, line 446, as called by toggle_webcam_scan when scanning,
\* by the event loop for a callback the loop scheduled, or by on_closing
stop_webcam_scan(caller) ==
    /\ ui = UiIdle
    /\ CASE caller = "toggle_webcam_scan" -> Idle /\ is_scanning_webcam
         [] caller = "after"              -> Ready /\ pending_stops > 0
         [] caller = "on_closing"         -> Idle
    /\ pending_stops' = IF caller = "after" THEN pending_stops - 1 ELSE pending_stops
    /\ is_scanning_webcam' = FALSE
    /\ ui' = [pc |-> "join", caller |-> caller]
    /\ last' = [op |-> caller, result |-> "stopping", args |-> <<>>]
    /\ UNCHANGED <<products, file, db_tree, edit_windows, scan_history, history_tree,
                   after_queue, dlg, now, scans, failures>>
    /\ UNCHANGED <<cap, devices, webcam_thread, threads>>

\* line 447: join(timeout=1) returns when the thread has ended or when the
\* second is over
stop_webcam_scan_join(timed_out) ==
    /\ ui.pc = "join"
    /\ timed_out = Alive(webcam_thread)
    /\ ui' = [ui EXCEPT !.pc = "release"]
    /\ UNCHANGED <<products, file, db_tree, edit_windows, scan_history, history_tree,
                   after_queue, dlg, now, scans, failures, last>>
    /\ UNCHANGED <<is_scanning_webcam, cap, devices, webcam_thread, threads, pending_stops>>

\* line 448, first half: if self.cap: self.cap.release()
stop_webcam_scan_release ==
    /\ ui.pc = "release"
    /\ devices' = IF cap = 0 THEN devices ELSE [devices EXCEPT ![cap] = "released"]
    /\ ui' = [ui EXCEPT !.pc = "clear"]
    /\ UNCHANGED <<products, file, db_tree, edit_windows, scan_history, history_tree,
                   after_queue, dlg, now, scans, failures, last>>
    /\ UNCHANGED <<is_scanning_webcam, cap, webcam_thread, threads, pending_stops>>

stop_webcam_scan_clear_forgetting ==
    /\ ui.pc = "clear"
    /\ cap' = 0
    /\ ui' = IF ui.caller = "on_closing" THEN [pc |-> "closed", caller |-> "on_closing"]
             ELSE UiIdle
    /\ last' = [op |-> "stop_webcam_scan", result |-> "stopped",
                args |-> [caller |-> ui.caller]]
    /\ scan_history' = <<>>
    /\ history_tree' = <<>>
    /\ UNCHANGED <<products, file, db_tree, edit_windows, after_queue, dlg, now, scans,
                   failures>>
    /\ UNCHANGED <<is_scanning_webcam, devices, webcam_thread, threads, pending_stops>>

\* line 448, second half, to the end: self.cap = None, the button, the
\* label and the status; on_closing goes on to destroy the root window
stop_webcam_scan_clear ==
    /\ ui.pc = "clear"
    /\ cap' = 0
    /\ ui' = IF ui.caller = "on_closing" THEN [pc |-> "closed", caller |-> "on_closing"]
             ELSE UiIdle
    /\ last' = [op |-> "stop_webcam_scan", result |-> "stopped",
                args |-> [caller |-> ui.caller]]
    /\ UNCHANGED <<products, file, db_tree, edit_windows, scan_history, history_tree,
                   after_queue, dlg, now, scans, failures>>
    /\ UNCHANGED <<is_scanning_webcam, devices, webcam_thread, threads, pending_stops>>

HandOver_direct(n) ==
    /\ scan_history' = add_to_history(scan_history, now, CamPayload(n),
                                      _analyze_scanned_data(CamPayload(n), products).type,
                                      scans + 1)
    /\ history_tree' = populate_history_view(scan_history', dlg.selected_items)
    /\ scans' = scans + 1
    /\ UNCHANGED after_queue

\* line 466: self.root.after(0, self.process_scanned_data, data)
HandOver(n) ==
    /\ after_queue' = Append(after_queue, CamPayload(n))
    /\ scans' = scans + 1
    /\ UNCHANGED <<scan_history, history_tree>>

\* a loop that returns without scheduling stop_webcam_scan
ScheduleStop_never(pc) == pending_stops

\* lines 467 and 473: self.root.after(..., self.stop_webcam_scan) as the loop's
\* last statement; the stop_webcam_scan callbacks scheduled after statement pc
ScheduleStop(pc) ==
    IF pc \in {"hand_stop", "exit"} THEN pending_stops + 1 ELSE pending_stops

\* the statements of the loop that call into Tk
TkCalls == {"announce", "lost", "hand_over", "hand_stop", "display", "exit"}

\* One statement of _scan_webcam_loop on thread n.  ret is what cap.read()
\* returns for an open camera, parsed whether the frame decodes to a code;
\* an input the statement does not read is given its first value.
\*   announce   453  root.after(0, self.update_status, ...)
\*   check      455  while self.is_scanning_webcam
\*   check_cap  455                                 and self.cap:
\*   load_cap   456  self.cap           (AttributeError on None at .read)
\*   read       456  .read(); a released or unopened capture gives ret False
\*   lost       457  root.after(0, self.update_status, "Webcam feed lost.", ...); break
\*   decode     461-465, 469
\*   hand_over  466  root.after(0, self.process_scanned_data, data)
\*   hand_stop  467  root.after(100, self.stop_webcam_scan); return
\*   display    470-472
\*   exit       473  root.after(0, self.stop_webcam_scan)
_scan_webcam_loop(n, ret, parsed) ==
    LET th    == threads[n]
        pc    == th.pc
        count == (th.frame_count + 1) % scan_interval
        got   == devices[th.cap] = "open" /\ ret
        next  == CASE pc = "announce"  -> [th EXCEPT !.pc = "check"]
                   [] pc = "check"     -> [th EXCEPT !.pc = IF is_scanning_webcam
                                                             THEN "check_cap" ELSE "exit"]
                   [] pc = "check_cap" -> [th EXCEPT !.pc = IF cap # 0
                                                             THEN "load_cap" ELSE "exit"]
                   [] pc = "load_cap"  -> IF cap = 0 THEN [th EXCEPT !.pc = "raised"]
                                          ELSE [th EXCEPT !.pc = "read", !.cap = cap]
                   [] pc = "read"      -> IF ~got THEN [th EXCEPT !.pc = "lost"]
                                          ELSE [th EXCEPT !.frame_count = count,
                                                          !.pc = IF count = 0 THEN "decode"
                                                                 ELSE "display"]
                   [] pc = "lost"      -> [th EXCEPT !.pc = "exit"]
                   [] pc = "decode"    -> [th EXCEPT !.pc = IF parsed THEN "hand_over"
                                                             ELSE "display"]
                   [] pc = "hand_over" -> [th EXCEPT !.pc = "hand_stop"]
                   [] pc = "hand_stop" -> [th EXCEPT !.pc = "done"]
                   [] pc = "display"   -> [th EXCEPT !.pc = "check"]
                   [] pc = "exit"      -> [th EXCEPT !.pc = "done"]
    IN  /\ Alive(n)
        /\ ui.pc # "closed"
        /\ pc \in TkCalls => TkServes
        /\ pc # "read" => ret
        /\ pc # "decode" => ~parsed
        /\ parsed => scans < MaxScans
        /\ threads' = [threads EXCEPT ![n] = next]
        /\ IF pc = "hand_over" THEN HandOver(n)
             ELSE UNCHANGED <<after_queue, scans, scan_history, history_tree>>
        /\ pending_stops' = ScheduleStop(pc)
        /\ UNCHANGED <<products, file, db_tree, edit_windows, dlg, now, failures, last,
                       is_scanning_webcam, cap, devices, webcam_thread, ui>>

\* live scanning, the recording of what it decodes, and the closing of the window
NextWebcam ==
    \/ mainloop
    \/ start_webcam_scan
    \/ \E opened \in BOOLEAN : start_webcam_scan_open(opened)
    \/ \E caller \in StopCallers : stop_webcam_scan(caller)
    \/ \E timed_out \in BOOLEAN : stop_webcam_scan_join(timed_out)
    \/ stop_webcam_scan_release
    \/ stop_webcam_scan_clear
    \/ \E n \in DOMAIN threads, ret \in BOOLEAN, parsed \in BOOLEAN :
          _scan_webcam_loop(n, ret, parsed)
    \/ process_scanned_data(now)

SpecWebcam == Init /\ [][NextWebcam]_vars

\* The event loop keeps running the callbacks that are due and every handler
\* that has begun runs to its end; every thread that can take a step is
\* scheduled.  The user is under no obligation.
FairWebcam ==
    /\ WF_vars(mainloop)
    /\ WF_vars(process_scanned_data(now))
    /\ WF_vars(stop_webcam_scan("after"))
    /\ WF_vars(\E opened \in BOOLEAN : start_webcam_scan_open(opened))
    /\ WF_vars(\E timed_out \in BOOLEAN : stop_webcam_scan_join(timed_out))
    /\ WF_vars(stop_webcam_scan_release)
    /\ WF_vars(stop_webcam_scan_clear)
    /\ \A n \in 1..MaxStarts :
          WF_vars(n \in DOMAIN threads
                  /\ \E ret \in BOOLEAN, parsed \in BOOLEAN : _scan_webcam_loop(n, ret, parsed))

SpecWebcamFair == SpecWebcam /\ FairWebcam

-----------------------------------------------------------------------------
(* export_to_csv.  csv.writer with the default dialect: fields joined by a  *)
(* comma, a field holding a comma, a quote or a line end put in quotes with *)
(* its quotes doubled, each row ended by "\r\n".                            *)

QUOTE == "\""
COMMA == ","
CR == "\r"
LF == "\n"

NeedsQuotes(field) == \E i \in DOMAIN field : field[i] \in {COMMA, QUOTE, CR, LF}

RECURSIVE DoubleQuotes(_)
DoubleQuotes(field) ==
    IF field = <<>> THEN <<>>
    ELSE (IF Head(field) = QUOTE THEN <<QUOTE, QUOTE>> ELSE <<Head(field)>>)
         \o DoubleQuotes(Tail(field))

QuoteField_never(field) == field

QuoteField(field) ==
    IF NeedsQuotes(field) THEN <<QUOTE>> \o DoubleQuotes(field) \o <<QUOTE>> ELSE field

RECURSIVE JoinFields(_)
JoinFields(fields) ==
    IF fields = <<>> THEN <<>>
    ELSE IF Len(fields) = 1 THEN QuoteField(fields[1])
    ELSE QuoteField(Head(fields)) \o <<COMMA>> \o JoinFields(Tail(fields))

\* writer.writerow(fields)
writerow(fields) == JoinFields(fields) \o <<CR, LF>>

CsvHeader == << <<"p", "r", "o", "d", "u", "c", "t", "_", "i", "d">>,
                <<"n", "a", "m", "e">>, <<"p", "r", "i", "c", "e">> >>

RECURSIVE writerows(_)
writerows(d) ==
    IF d = <<>> THEN <<>>
    ELSE writerow(<<Head(d).pid, Head(d).name, Head(d).price>>) \o writerows(Tail(d))

\* the text export_to_csv writes for a catalog
CsvText(d) == writerow(CsvHeader) \o writerows(d)

\* The re-parsing of the exported file: csv.reader with the default dialect,
\* a character at a time; mode is the reader's state, field and row what it has gathered, rows what it has read
RECURSIVE reader(_, _, _, _, _)
reader(text, mode, field, row, rows) ==
    IF text = <<>>
      THEN IF mode \in {"start_record", "eat_lf"} THEN rows
           ELSE Append(rows, Append(row, field))
    ELSE
      LET c      == Head(text)
          rest   == Tail(text)
          ended  == IF c = CR THEN "eat_lf" ELSE "start_record"
      IN  CASE mode = "eat_lf" /\ c = LF ->
                  reader(rest, "start_record", <<>>, <<>>, rows)
            [] mode = "eat_lf" /\ c # LF ->
                  reader(text, "start_record", <<>>, <<>>, rows)
            [] mode = "start_record" /\ c \in {CR, LF} ->
                  reader(rest, ended, <<>>, <<>>, Append(rows, <<>>))
            [] mode \in {"start_record", "start_field"} /\ c = QUOTE ->
                  reader(rest, "in_quoted", <<>>, row, rows)
            [] mode \in {"start_record", "start_field", "in_field", "quote_in_quoted"}
               /\ c = COMMA ->
                  reader(rest, "start_field", <<>>, Append(row, field), rows)
            [] mode \in {"start_field", "in_field", "quote_in_quoted"} /\ c \in {CR, LF} ->
                  reader(rest, ended, <<>>, <<>>, Append(rows, Append(row, field)))
            [] mode = "in_quoted" /\ c = QUOTE ->
                  reader(rest, "quote_in_quoted", field, row, rows)
            [] mode = "quote_in_quoted" /\ c = QUOTE ->
                  reader(rest, "in_quoted", Append(field, QUOTE), row, rows)
            [] mode = "in_quoted" /\ c # QUOTE ->
                  reader(rest, "in_quoted", Append(field, c), row, rows)
            [] OTHER ->
                  reader(rest, "in_field", Append(field, c), row, rows)

\* list(csv.reader(f))
ParseCsv(text) == reader(text, "start_record", <<>>, <<>>, <<>>)

NotWritten == [state |-> "none", text |-> <<>>]

\* asksaveasfilename: the path chosen, empty when the dialog is cancelled
ExportPaths == {"", "out.csv"}

\* export_to_csv.  An input it does not come to read is given its first
\* value.  A failure of open() leaves no file, a failure of a write a cut one.
export_to_csv(file_path, outcome) ==
    LET result  == IF products = <<>> THEN "empty"
                   ELSE IF file_path = "" THEN "cancelled"
                   ELSE IF outcome # "ok" THEN "IOError"
                   ELSE "ok"
        written == IF result = "ok" THEN [state |-> "written", text |-> CsvText(products)]
                   ELSE IF result = "IOError" /\ outcome = "write_failed"
                     THEN [state |-> "cut", text |-> <<>>]
                   ELSE NotWritten
    IN  /\ Idle
        /\ result = "empty" => file_path = "out.csv"
        /\ result \in {"empty", "cancelled"} => outcome = "ok"
        /\ last' = [op |-> "export_to_csv", result |-> result,
                    args |-> [file_path |-> file_path, outcome |-> outcome,
                              written |-> written]]
        /\ UNCHANGED camvars
        /\ UNCHANGED <<products, file, db_tree, edit_windows, scan_history, history_tree,
                       after_queue, dlg, now, scans, failures>>

s_COMMA_ID == <<"a", COMMA, "b">>
s_QUOTED == <<"x", QUOTE, "y">>
s_TRAILING == <<QUOTE, "q", COMMA>>

ExportIdTexts == {s_P1, s_COMMA_ID}
ExportNameTexts == {s_A, s_QUOTED, s_TRAILING}

\* the catalog handlers and the export
NextExport ==
    \/ mainloop
    \/ \E id_text \in ExportIdTexts, name_text \in ExportNameTexts :
          generate_product_qr(id_text, name_text, s_5, "ok", "ok")
    \/ \E sel \in DOMAIN db_tree : delete_product(sel, TRUE, "ok")
    \/ \E file_path \in ExportPaths, outcome \in SaveOutcomes :
          export_to_csv(file_path, outcome)

SpecExport == Init /\ [][NextExport]_vars

-----------------------------------------------------------------------------
(* The start of the program on its own: every catalog file.                 *)

LoadIds == {s_P1, s_URLID, s_AT}
LoadNames == {s_A, s_B}
LoadPrices == {FormatPrice(ParseFloat(s_5)), FormatPrice(ParseFloat(s_NEG5))}

LoadRows == {[pid |-> i, name |-> n, price |-> p] :
                i \in LoadIds, n \in LoadNames, p \in LoadPrices}

\* the dicts a well-formed file can hold: rows with different keys
LoadCatalogs == {<<>>} \cup {<<r>> : r \in LoadRows}
                \cup {rq \in LoadRows \X LoadRows : rq[1].pid # rq[2].pid}

LoadFiles == {FileMissing, FileCorrupt, FileUnreadable, FileUndecodable}
             \cup {FileOf(d) : d \in LoadCatalogs}

Constructed == [op |-> "__init__", result |-> "ok", args |-> <<>>]

StartTimer == <<[callback |-> "initialize_main_app"]>>

\* QuantumLinkApp.__init__: root.after(2500, self.initialize_main_app) is
\* pending and the catalog is not loaded yet
InitLoad ==
    /\ file \in LoadFiles
    /\ products = <<>>
    /\ db_tree = <<>>
    /\ edit_windows = <<>>
    /\ scan_history = <<>>
    /\ history_tree = <<>>
    /\ after_queue = StartTimer
    /\ dlg = NoDialog
    /\ now = 0
    /\ scans = 0
    /\ failures = 0
    /\ last = Constructed
    /\ CamInit

\* initialize_main_app, called by root.after(2500, ...): an exception of
\* load_products leaves it before self.products is assigned and before any
\* widget is made
initialize_main_app ==
    LET loaded == load_products(file)
    IN  /\ Ready
        /\ after_queue = StartTimer
        /\ after_queue' = <<>>
        /\ IF loaded.raised = "none"
             THEN /\ products' = loaded.value
                  /\ db_tree' = populate_database_view(loaded.value)
             ELSE UNCHANGED <<products, db_tree>>
        /\ last' = [op |-> "initialize_main_app",
                    result |-> IF loaded.raised = "none" THEN "ok" ELSE loaded.raised,
                    args |-> [shown |-> loaded.shown]]
        /\ UNCHANGED camvars
        /\ UNCHANGED <<file, edit_windows, scan_history, history_tree, dlg, now, scans,
                       failures>>

NextLoad ==
    \/ initialize_main_app
    \/ mainloop

SpecLoad == InitLoad /\ [][NextLoad]_vars

-----------------------------------------------------------------------------
(* Properties.                                                              *)

\* the payload begins with the prefix
HasPrefix(data, prefix) == \E k \in 0..Len(data) : SubSeq(data, 1, k) = prefix

\* the decision rules of the classifier, in their order
RuleApplies(i, data, d) ==
    CASE i = 1 -> \E r \in 1..Len(d) : d[r].pid = data
      [] i = 2 -> HasPrefix(data, <<"W", "I", "F", "I", ":">>)
      [] i = 3 -> \/ HasPrefix(data, <<"h", "t", "t", "p", ":", "/", "/">>)
                  \/ HasPrefix(data, <<"h", "t", "t", "p", "s", ":", "/", "/">>)
      [] i = 4 -> HasPrefix(data, <<"m", "a", "i", "l", "t", "o", ":">>)
      [] i = 5 -> HasPrefix(data, <<"t", "e", "l", ":">>)
      [] i = 6 -> TRUE

\* ProductReference, WifiCredential, Url, EmailAddress, PhoneNumber, PlainText
RuleCategory == <<"Product ID", "Wi-Fi Network", "URL", "Email Address",
                  "Phone Number", "Plain Text">>

FirstMatch(data, d) ==
    RuleCategory[CHOOSE i \in 1..6 :
                    RuleApplies(i, data, d) /\ \A j \in 1..(i - 1) : ~RuleApplies(j, data, d)]

\* C1: the classifier returns the category of the first rule that applies, in
\* the order catalog id, "WIFI:", "http://" or "https://", "mailto:", "tel:",
\* plain text; a catalog id that is also a URL is a product reference.
C1_FirstMatchingRule ==
    last.op = "_analyze_scanned_data"
        => last.result.type = FirstMatch(last.args.data, products)

C1_Witness_IdThatIsUrl ==
    /\ last.op = "_analyze_scanned_data"
    /\ last.args.data \in Ids(products)
    /\ HasPrefix(last.args.data, HTTP)
    /\ last.result.type = "Product ID"

\* C2: the ledger is in reverse order of recording: every row was appended
\* after all the rows behind it.
C2_NewestFirst ==
    \A i, j \in DOMAIN scan_history : i < j => scan_history[i].n > scan_history[j].n

C2_Witness_E3E2E1 ==
    /\ Len(scan_history) = 3
    /\ <<scan_history[1].n, scan_history[2].n, scan_history[3].n>> = <<3, 2, 1>>

\* the rows of h whose positions (counted from 0) are not in S, in h's order
RECURSIVE Kept(_, _, _)
Kept(h, S, pos) ==
    IF h = <<>> THEN <<>>
    ELSE (IF pos \in S THEN <<>> ELSE <<Head(h)>>) \o Kept(Tail(h), S, pos + 1)

CatalogHandlers == {"generate_product_qr", "save_changes", "delete_product"}

\* C4: the category of a ledger row is the classifier's result against the
\* catalog at the moment the scan is recorded, and no catalog handler changes
\* a row of the ledger.
C4_CategoryFixedAtRecording ==
    [][/\ last'.op = "process_scanned_data"
          => /\ scan_history' # <<>>
             /\ Tail(scan_history') = scan_history
             /\ Head(scan_history').data = last'.args.data
             /\ Head(scan_history').type = FirstMatch(last'.args.data, products)
       /\ last'.op \in CatalogHandlers \cup {"edit_product"}
          => scan_history' = scan_history]_vars

C4_Witness_CatalogChangedLater ==
    \E i \in DOMAIN scan_history :
        /\ scan_history[i].type # FirstMatch(scan_history[i].data, products)
        /\ last.op \in CatalogHandlers

\* a non-negative decimal: digits, with at most one point among them
IsNonNegDecimal(s) ==
    /\ \E i \in DOMAIN s : IsDigit(s[i])
    /\ \A i \in DOMAIN s : IsDigit(s[i]) \/ s[i] = "."
    /\ Cardinality({i \in DOMAIN s : s[i] = "."}) <= 1

\* the currency symbol, digits, a point and exactly two digits
IsTwoDecimalPrice(p) ==
    /\ Len(p) >= 5
    /\ p[1] = RUPEE
    /\ p[Len(p) - 2] = "."
    /\ \A i \in 2..Len(p) : i # Len(p) - 2 => IsDigit(p[i])

\* the text without the spaces around it
Trimmed(s) == SelectSeq(s, LAMBDA c : c # " ")

ValidTriple(a) ==
    /\ Trimmed(a.id) # <<>>
    /\ Trimmed(a.name) # <<>>
    /\ IsNonNegDecimal(Trimmed(a.price))

Row(d, k) == CHOOSE r \in {d[i] : i \in DOMAIN d} : r.pid = k

\* C5 as stated: for every valid (id, name, price), generate_product_qr (whose
\* QR image is made and written) then lookup(id) gives the record with that
\* id, that name and the price with the currency symbol and two decimals.
C5_CreateThenLookup ==
    [][(/\ last'.op = "generate_product_qr"
        /\ ValidTriple(last'.args)
        /\ last'.args.img = "ok")
          => /\ Trimmed(last'.args.id) \in Ids(products')
             /\ Row(products', Trimmed(last'.args.id)).name = Trimmed(last'.args.name)
             /\ IsTwoDecimalPrice(Row(products', Trimmed(last'.args.id)).price)]_vars

\* C6 as stated: generate_product_qr with an empty id, an empty name or a
\* price that is not a non-negative decimal reports a validation error and
\* leaves the catalog and the catalog file as they were.
C6_InvalidInputRejected ==
    [][(last'.op = "generate_product_qr" /\ ~ValidTriple(last'.args))
          => /\ last'.result \in {"fields_required", "price_invalid"}
             /\ products' = products
             /\ file' = file]_vars

\* C7 as stated: save_changes for an id that is not in the catalog fails as
\* not found (the KeyError of the lookup) and leaves the catalog unchanged.
C7_UpdateAbsentIsNotFound ==
    [][(last'.op = "save_changes" /\ last'.args.id \notin Ids(products))
          => /\ last'.result = "KeyError"
             /\ products' = products
             /\ file' = file]_vars

ViewIds(tree) == {tree[i][1] : i \in DOMAIN tree}

\* C8: delete_product acts on an id of the catalog only (the view it selects
\* from shows exactly the catalog's ids, so a delete of an absent id, a second
\* delete of the same id included, cannot be asked for and never raises);
\* confirmed, it removes exactly that record, keeps the others as they were
\* and in their order, and takes the id out of the view; unconfirmed or with
\* nothing selected it changes nothing.
C8_DeleteExactlyOne ==
    [][last'.op = "delete_product"
          => /\ ViewIds(db_tree) = Ids(products)
             /\ last'.result # "KeyError"
             /\ last'.result \in {"no_selection", "declined"}
                   => products' = products /\ file' = file
             /\ last'.result \in {"ok", "save_failed"}
                   => /\ last'.args.id \in Ids(products)
                      /\ products' = SelectSeq(products, LAMBDA r : r.pid # last'.args.id)
                      /\ Len(products') = Len(products) - 1
                      /\ last'.args.id \notin ViewIds(db_tree')]_vars

C8_Witness_OneOfTwoDeleted ==
    /\ last.op = "delete_product"
    /\ last.result = "ok"
    /\ Len(products) = 1
    /\ last.args.id \notin Ids(products)
    /\ file = FileOf(products)

\* C9: when a catalog handler has changed the catalog and reported no storage
\* failure, the catalog file holds the in-memory catalog.
C9_FileEqualsMemory ==
    (last.op \in CatalogHandlers /\ last.result = "ok")
        => /\ file.state = "ok"
           /\ load_products(file).raised = "none"
           /\ load_products(file).value = products

C9_Witness_SavedAfterFailure ==
    /\ last.op \in CatalogHandlers
    /\ last.result = "ok"
    /\ failures = 1
    /\ products # <<>>
    /\ load_products(file).value = products

\* C10: when the save fails in a catalog handler, the failure is reported
\* and the in-memory catalog holds the handler's change, while the file holds
\* what it held or a cut file; the handler then returns to the event loop.
C10_FailedSaveKeepsMemory ==
    /\ [](last.result = "save_failed" => ENABLED mainloop)
    /\ [][(last'.op \in CatalogHandlers /\ last'.args.outcome # "ok")
             => /\ last'.result = "save_failed"
                /\ failures' = failures + 1
                /\ file' \in {file, FileCorrupt}
                /\ last'.op = "delete_product"
                      => /\ last'.args.id \in Ids(products)
                         /\ last'.args.id \notin Ids(products')
                /\ last'.op = "generate_product_qr"
                      => /\ Trimmed(last'.args.id) \in Ids(products')
                         /\ Row(products', Trimmed(last'.args.id)).name
                               = Trimmed(last'.args.name)
                /\ last'.op = "save_changes"
                      => Row(products', last'.args.id).name = Trimmed(last'.args.name)]_vars

C10_Witness_MemoryAheadOfFile ==
    /\ last.op \in CatalogHandlers
    /\ last.result = "save_failed"
    /\ products # <<>>
    /\ file # FileOf(products)

\* C11 as stated: load_products never raises; with a missing, corrupt or
\* unreadable catalog file the program starts with an empty catalog, and with
\* a well-formed file it starts with exactly the mapping the file holds.
C11_LoadNeverFatal ==
    last.op = "initialize_main_app"
        => /\ last.result = "ok"
           /\ products = IF file.state = "ok" THEN file.data ELSE <<>>

\* the rows a reader of the export is to find: the header, then the
\* catalog's records in the catalog's order
ExpectedRows(d) == <<CsvHeader>> \o [i \in DOMAIN d |-> <<d[i].pid, d[i].name, d[i].price>>]

\* C12 as stated: for every catalog, the empty one included, an export to a
\* chosen, writable destination writes a file that parses to the header row
\* and the catalog's records in order.
C12_ExportEveryCatalog ==
    (/\ last.op = "export_to_csv"
     /\ last.args.file_path # ""
     /\ last.args.outcome = "ok")
        => /\ last.args.written.state = "written"
           /\ ParseCsv(last.args.written.text) = ExpectedRows(products)

\* C12, amended: for every catalog that is not empty, an export to a chosen,
\* writable destination writes a file that parses to the header row and the
\* catalog's records in order; for the empty catalog export writes no file
\* and reports that the database is empty.
C12_ExportNonEmptyCatalog ==
    last.op = "export_to_csv"
        => /\ products = <<>> => last.result = "empty" /\ last.args.written = NotWritten
           /\ (products # <<>> /\ last.args.file_path # "" /\ last.args.outcome = "ok")
                 => /\ last.result = "ok"
                    /\ last.args.written.state = "written"
                    /\ ParseCsv(last.args.written.text) = ExpectedRows(products)
           /\ last.result = "ok" => products # <<>>

C12_Witness_CommaAndQuote ==
    /\ last.op = "export_to_csv"
    /\ last.result = "ok"
    /\ Len(products) = 2
    /\ \E i \in DOMAIN products : products[i].pid = s_COMMA_ID /\ products[i].name = s_QUOTED
    /\ ParseCsv(last.args.written.text) = ExpectedRows(products)

\* C13: no two records of the catalog have the same id; a generate_product_qr
\* that stores under an id already in the catalog replaces that record's name
\* and price by the new ones, and keeps the number of records and every
\* other record.
C13_UniqueIdsLastWriteWins ==
    /\ [](\A i, j \in DOMAIN products : products[i].pid = products[j].pid => i = j)
    /\ [][(/\ last'.op = "generate_product_qr"
           /\ last'.result \in {"ok", "save_failed"}
           /\ Trimmed(last'.args.id) \in Ids(products))
             => /\ Len(products') = Len(products)
                /\ \A i \in DOMAIN products :
                      IF products[i].pid = Trimmed(last'.args.id)
                        THEN products'[i] =
                               [pid |-> products[i].pid,
                                name |-> Trimmed(last'.args.name),
                                price |-> FormatPrice(ParseFloat(Trimmed(last'.args.price)))]
                        ELSE products'[i] = products[i]]_vars

C13_Witness_FirstOfTwoReplaced ==
    /\ last.op = "generate_product_qr"
    /\ last.result = "ok"
    /\ Len(products) = 2
    /\ products[1].pid = Trimmed(last.args.id)
    /\ products[1].name = s_B
    /\ products[1].price = <<RUPEE, "-", "5", ".", "0", "0">>

\* a statement of a capture loop is carried out in the step
LoopStep == Len(threads') = Len(threads) /\ threads' # threads

StopStep == ui' # ui /\ (ui'.pc = "join" \/ ui.pc \in {"join", "release", "clear"})

\* C15: no step of stop_webcam_scan, whoever called it, changes the ledger
\* or the catalog: the rows recorded before are there after it, in order.
C15_StopKeepsLedgerAndCatalog ==
    [][StopStep => /\ scan_history' = scan_history
                   /\ history_tree' = history_tree
                   /\ products' = products
                   /\ file' = file]_vars

C15_Witness_StoppedWithRowsAndPending ==
    /\ last.op = "stop_webcam_scan"
    /\ last.args.caller = "toggle_webcam_scan"
    /\ scan_history # <<>>
    /\ after_queue # <<>>
    /\ ~is_scanning_webcam
    /\ cap = 0

\* C16 as stated: at most one capture loop thread is running at any time.
C16_AtMostOneLoop ==
    Cardinality({n \in DOMAIN threads : Alive(n)}) <= 1

\* C17 as stated: the loop never reads from a capture that stop_webcam_scan
\* has released.
C17_NoReadAfterRelease ==
    [][\A n \in DOMAIN threads :
          (threads[n].pc = "read" /\ threads'[n].pc # "read")
             => devices[threads[n].cap] # "released"]_vars

\* is_scanning_webcam false, the capture released and self.cap None
Stopped == ~is_scanning_webcam /\ cap = 0

\* the rows of the ledger that hold the payload the n-th loop decoded
RowsOf(n) == {i \in DOMAIN scan_history : scan_history[i].data = CamPayload(n)}

\* the n-th loop is at the statement
LoopAt(n, pcs) == n \in DOMAIN threads /\ threads[n].pc \in pcs

\* C18: a payload that a loop has decoded is in the ledger never more than
\* once and, unless the window is closed first, eventually once; and a loop
\* that ends by a decode, by a lost feed or because the scan was stopped (it
\* schedules stop_webcam_scan in each case) is followed by the stopped state.
C18_DecodedRecordedOnceAndStopped ==
    /\ [](\A n \in DOMAIN threads : Cardinality(RowsOf(n)) <= 1)
    /\ \A n \in 1..MaxStarts :
          LoopAt(n, {"hand_over"}) ~> (Cardinality(RowsOf(n)) = 1 \/ ui.pc = "closed")
    /\ \A n \in 1..MaxStarts :
          LoopAt(n, {"hand_over", "exit"}) ~> Stopped

C18_Witness_RecordedAndStopped ==
    /\ LoopAt(1, {"done"})
    /\ Cardinality(RowsOf(1)) = 1
    /\ Stopped
    /\ pending_stops = 0
    /\ last.op = "stop_webcam_scan"
    /\ last.args.caller = "after"

=============================================================================
